---- MODULE Spec2Model ----
(***************************************************************************)
(* Session persistence, login flows and page lookups of smstool.           *)
(*                                                                         *)
(*   session_manager.py  SessionManager: save_session, load_session,       *)
(*                       is_session_valid, get_storage_state,              *)
(*                       clean_storage_state, delete_session               *)
(*   login_module.py     perform_login, is_logged_in, ensure_logged_in,    *)
(*                       create_playwright_session                         *)
(*   test/login_guanwang.py  LoginManager.login, login_aliyun              *)
(*   utils/qualification_query.py, test/test_local.py  PID selector loops  *)
(*   utils/sms_signature_query.py, utils/helpers.py  work-order extraction *)
(*                                                                         *)
(* The session file is one shared location (config.SESSION_PATH); several  *)
(* SessionManager objects may exist for it, each with its own cached       *)
(* session_data.  Python values are modelled as records of a fixed shape   *)
(* so that any two of them can be compared.                                *)
(***************************************************************************)
EXTENDS Integers, Sequences, FiniteSets, TLC

VARIABLES
    file,          \* content of the session file at session_path
    session_data,  \* session_data[i]: the attribute self.session_data of manager i
    now,           \* datetime.now(), in ticks
    last,          \* the call that produced this state and what it returned
    saver,         \* the manager whose successful save wrote the current file content
    login,         \* one invocation of ensure_logged_in: position and history
    session,       \* one invocation of create_playwright_session
    manager,       \* one invocation of LoginManager.login or login_aliyun
    lookup,        \* the selector-fallback loop that is running
    query,         \* the work-order extraction of one query_sms_signature call
    multi          \* one invocation of query_sms_success_rate_multi

vars ==
    <<file, session_data, now, last, saver, login, session, manager, lookup, query,
      multi>>

\* the page flows outside login_module, and all flows that drive a browser
page_flows == <<manager, lookup, query, multi>>

browser_flows == <<session, manager, lookup, query, multi>>

---------------------------------------------------------------------------
(* Bounds of the model *)

\* the clock runs over 0..MaxTime ticks
MaxTime == 2

\* hours per clock tick; ages are multiples of it
HoursPerTick == 24

\* the managers (SessionManager objects) on the one session path
Instances == {"a", "b"}

\* max_age_hours arguments tried; DefaultMaxAgeHours is among them
DefaultMaxAgeHours == 24

MaxAgeChoices == {0, DefaultMaxAgeHours}

\* cookie lists handed to clean_storage_state have up to MaxCookies entries
MaxCookies == 3

\* texts read from the page have up to MaxText characters
MaxText == 3

\* the rows of the result table
MaxRows == 2

\* the latest moment a modification time names
MaxStamp == 2

\* the time ranges of one query_sms_success_rate_multi call
MaxRanges == 3

---------------------------------------------------------------------------
(* Python values *)

\* a storage_state value: None, a dict (with or without a cookies key, with or
\* without an origins payload), or a str; "missing" stands for an absent key.
\* serializable = FALSE: the dict holds an object json cannot encode.
Storage(kind, cookieKind, cookies, origins, serializable) ==
    [kind |-> kind, cookieKind |-> cookieKind, cookies |-> cookies,
     origins |-> origins, serializable |-> serializable]

StorageMissing == Storage("missing", "missing", <<>>, FALSE, TRUE)
StorageNone    == Storage("none", "missing", <<>>, FALSE, TRUE)
StorageEmpty   == Storage("dict", "missing", <<>>, FALSE, TRUE)
StorageNoCookiesKey == Storage("dict", "missing", <<>>, TRUE, TRUE)
StorageNoCookies    == Storage("dict", "list", <<>>, TRUE, TRUE)
StorageOne     == Storage("dict", "list", <<"c1">>, FALSE, TRUE)
StorageTwo     == Storage("dict", "list", <<"c2", "c1">>, TRUE, TRUE)
StorageCookieStr == Storage("dict", "str", <<>>, FALSE, TRUE)
StorageUnserializable == Storage("dict", "list", <<"c1">>, TRUE, FALSE)

\* what callers hand to save_session
StorageInputs ==
    {StorageNoCookies, StorageOne, StorageTwo, StorageUnserializable}

\* bool(storage_state): None and {} are falsy
StorageTruthy(s) ==
    \/ s.kind = "str"
    \/ s.kind = "dict" /\ (s.cookieKind # "missing" \/ s.origins)

\* bool(cookies): [] is falsy, a non-empty list or str is truthy
CookiesTruthy(s) ==
    \/ s.cookieKind = "str"
    \/ s.cookieKind = "list" /\ Len(s.cookies) > 0

\* a saved_at value: absent key, "" (falsy), a str that is no ISO timestamp,
\* or the isoformat of the instant t
SavedAt(k, t) == [k |-> k, t |-> t]

\* datetime.now().isoformat()
IsoFormat(t) == SavedAt("ts", t)

\* datetime.fromisoformat(s): ok = FALSE when it raises ValueError
FromIsoFormat(s) == [ok |-> s.k = "ts", t |-> s.t]

\* a session_data value: None, a dict, or a list (parsed JSON that is no object)
Data(kind, storage_state, saved_at, version) ==
    [kind |-> kind, storage_state |-> storage_state, saved_at |-> saved_at,
     version |-> version]

DataNone == Data("none", StorageMissing, SavedAt("missing", 0), "missing")
DataList == Data("list", StorageMissing, SavedAt("missing", 0), "missing")

\* bool(session_data): None and {} are falsy
DataTruthy(d) ==
    \/ d.kind = "list"
    \/ d.kind = "dict" /\ (d.storage_state.kind # "missing" \/ d.saved_at.k # "missing"
                           \/ d.version # "missing")

\* the file: absent, text that json.load rejects (empty or cut short), or the
\* text of a JSON document
FileAbsent  == [kind |-> "absent", doc |-> DataNone]
FileGarbage == [kind |-> "garbage", doc |-> DataNone]
FileText(d) == [kind |-> "text", doc |-> d]

\* json.dump(session_data, f): ok = FALSE when the encoder raises TypeError
JsonDump(d) == [ok |-> d.storage_state.serializable, text |-> FileText(d)]

\* json.load(f): ok = FALSE when the decoder raises
JsonLoad(f) == [ok |-> f.kind = "text", value |-> f.doc]

---------------------------------------------------------------------------
(* SessionManager *)

\* the instant a try block is left by an exception is written ret = "exc";
\* the except clause turns it into the method's failure value
Result(f, sd, ret, state) ==
    [file |-> f, session_data |-> sd, ret |-> ret, state |-> state]

\* except Exception as e: ... return <value>
Except(r, value) == IF r.ret = "exc" THEN [r EXCEPT !.ret = value] ELSE r

\* where a save attempt can fail: creating the parent directory, opening the
\* file for writing, writing to it
SaveFaults == {"ok", "mkdir", "open", "write"}

\* SaveSessionTry without the assignment self.session_data = session_data
SaveSessionTryKeepsCache(sd, f, t, storage_state, io) ==
    LET data == Data("dict", storage_state, IsoFormat(t), "1.0")
        dumped == JsonDump(data)
    IN  IF io \in {"mkdir", "open"} THEN Result(f, sd, "exc", StorageMissing)
        ELSE IF io = "write" \/ ~dumped.ok
             THEN Result(FileGarbage, sd, "exc", StorageMissing)
        ELSE Result(dumped.text, sd, "True", StorageMissing)

\* the try block of save_session.  open(path, 'w') truncates the file before
\* anything is written; json.dump writes as it encodes, so an encoder error or
\* a write error leaves text that is cut short.
SaveSessionTry(sd, f, t, storage_state, io) ==
    LET data == Data("dict", storage_state, IsoFormat(t), "1.0")
        dumped == JsonDump(data)
    IN  IF io \in {"mkdir", "open"} THEN Result(f, sd, "exc", StorageMissing)
        ELSE IF io = "write" \/ ~dumped.ok
             THEN Result(FileGarbage, sd, "exc", StorageMissing)
        ELSE Result(dumped.text, data, "True", StorageMissing)

\* save_session without its except clause
SaveSessionNoExcept(sd, f, t, storage_state, io) ==
    SaveSessionTry(sd, f, t, storage_state, io)

SaveSession(sd, f, t, storage_state, io) ==
    Except(SaveSessionTry(sd, f, t, storage_state, io), "False")

\* the try block of load_session.  self.session_data is assigned as soon as
\* json.load returns, whatever the parsed value is.
LoadSessionTry(sd, f) ==
    IF f.kind = "absent" THEN Result(f, sd, "None", StorageMissing)
    ELSE LET parsed == JsonLoad(f)
         IN  IF ~parsed.ok THEN Result(f, sd, "exc", StorageMissing)
             ELSE IF parsed.value.kind # "dict"
                  THEN Result(f, parsed.value, "exc", StorageMissing)
             ELSE IF ~StorageTruthy(parsed.value.storage_state)
                  THEN Result(f, parsed.value, "None", StorageMissing)
             ELSE Result(f, parsed.value, "state", parsed.value.storage_state)

\* load_session without its except clause
LoadSessionNoExcept(sd, f) == LoadSessionTry(sd, f)

LoadSession(sd, f) == Except(LoadSessionTry(sd, f), "None")

\* age > timedelta(hours=max_age_hours)
Expired(saved_at, t, max_age_hours) ==
    (t - saved_at) * HoursPerTick > max_age_hours

\* the try block of is_session_valid
IsSessionValidTry(sd, f, t, max_age_hours) ==
    LET sd1 == IF ~DataTruthy(sd) THEN LoadSession(sd, f).session_data ELSE sd
        saved_at == FromIsoFormat(sd1.saved_at)
    IN  IF ~DataTruthy(sd1) THEN Result(f, sd1, "False", StorageMissing)
        ELSE IF sd1.kind # "dict" THEN Result(f, sd1, "exc", StorageMissing)
        ELSE IF sd1.saved_at.k \in {"missing", "empty"}
             THEN Result(f, sd1, "False", StorageMissing)
        ELSE IF ~saved_at.ok THEN Result(f, sd1, "exc", StorageMissing)
        ELSE IF Expired(saved_at.t, t, max_age_hours)
             THEN Result(f, sd1, "False", StorageMissing)
        ELSE IF sd1.storage_state.kind \in {"none", "str"}
             THEN Result(f, sd1, "exc", StorageMissing)
        ELSE IF ~CookiesTruthy(sd1.storage_state)
             THEN Result(f, sd1, "False", StorageMissing)
        ELSE Result(f, sd1, "True", StorageMissing)

IsSessionValid(sd, f, t, max_age_hours) ==
    IF f.kind = "absent" THEN Result(f, sd, "False", StorageMissing)
    ELSE Except(IsSessionValidTry(sd, f, t, max_age_hours), "False")

\* CleanStorageState reading a key that is not there: the cookie list comes
\* back empty
CleanStorageStateWrongKey(storage_state) ==
    IF ~StorageTruthy(storage_state) THEN storage_state
    ELSE IF storage_state.kind # "dict"
         THEN Storage("raise", "missing", <<>>, FALSE, TRUE)
    ELSE Storage("dict", "list", <<>>, FALSE, storage_state.serializable)

\* CleanStorageState keeping cookies[1:] instead of the cookie list
CleanStorageStateDropsFirst(storage_state) ==
    IF ~StorageTruthy(storage_state) THEN storage_state
    ELSE IF storage_state.kind # "dict"
         THEN Storage("raise", "missing", <<>>, FALSE, TRUE)
    ELSE Storage("dict", "list",
                 IF storage_state.cookies = <<>> THEN <<>>
                 ELSE Tail(storage_state.cookies),
                 FALSE, storage_state.serializable)

\* CleanStorageState as a shallow copy: the origins payload stays in
CleanStorageStateKeepsOrigins(storage_state) ==
    IF ~StorageTruthy(storage_state) THEN storage_state
    ELSE IF storage_state.kind # "dict"
         THEN Storage("raise", "missing", <<>>, FALSE, TRUE)
    ELSE Storage("dict",
                 IF storage_state.cookieKind = "missing" THEN "list"
                 ELSE storage_state.cookieKind,
                 storage_state.cookies, storage_state.origins,
                 storage_state.serializable)

\* clean_storage_state: a falsy value is returned as it is; of a dict only the
\* cookies are kept (an unencodable object is taken to sit in a cookie).  A str
\* has no .get: kind "raise" stands for the AttributeError.
CleanStorageState(storage_state) ==
    IF ~StorageTruthy(storage_state) THEN storage_state
    ELSE IF storage_state.kind # "dict"
         THEN Storage("raise", "missing", <<>>, FALSE, TRUE)
    ELSE Storage("dict",
                 IF storage_state.cookieKind = "missing" THEN "list"
                 ELSE storage_state.cookieKind,
                 storage_state.cookies, FALSE, storage_state.serializable)

\* get_storage_state: ret is "None" or "state" (then state is what is returned)
GetStorageState(sd, f, t, max_age_hours) ==
    LET v == IsSessionValid(sd, f, t, max_age_hours)
        sd1 == IF ~DataTruthy(v.session_data)
               THEN LoadSession(v.session_data, f).session_data
               ELSE v.session_data
        cleaned == IF StorageTruthy(sd1.storage_state)
                   THEN CleanStorageState(sd1.storage_state)
                   ELSE sd1.storage_state
    IN  IF v.ret # "True" THEN Result(f, v.session_data, "None", StorageMissing)
        ELSE IF ~DataTruthy(sd1) THEN Result(f, sd1, "None", StorageMissing)
        ELSE IF cleaned.kind \in {"none", "missing"}
             THEN Result(f, sd1, "None", StorageMissing)
        ELSE Result(f, sd1, "state", cleaned)

\* where a delete can fail: unlink raising (the file is in use, no permission)
DeleteFaults == {"ok", "unlink"}

\* DeleteSessionTry reporting success when there was nothing to delete
DeleteSessionTryAlwaysTrue(sd, f, io) ==
    IF f.kind # "absent"
    THEN IF io = "unlink" THEN Result(f, sd, "exc", StorageMissing)
         ELSE Result(FileAbsent, sd, "True", StorageMissing)
    ELSE Result(f, sd, "True", StorageMissing)

\* the try block of delete_session
DeleteSessionTry(sd, f, io) ==
    IF f.kind # "absent"
    THEN IF io = "unlink" THEN Result(f, sd, "exc", StorageMissing)
         ELSE Result(FileAbsent, sd, "True", StorageMissing)
    ELSE Result(f, sd, "False", StorageMissing)

DeleteSession(sd, f, io) == Except(DeleteSessionTry(sd, f, io), "False")

---------------------------------------------------------------------------
(* The calls, one action per method *)

\* what a call leaves behind for the properties: the method, the manager, its
\* arguments (max_age_hours, the storage_state handed to save_session, the point
\* of failure), whether the manager had no session_data before the call (fresh),
\* and what was returned (ret, and state when a storage_state is returned)
Call(op, inst, max_age_hours, arg, io, fresh, ret, state) ==
    [op |-> op, inst |-> inst, max_age_hours |-> max_age_hours, arg |-> arg,
     io |-> io, fresh |-> fresh, ret |-> ret, state |-> state]

NoCall(op) == Call(op, "none", 0, StorageMissing, "ok", FALSE, "None", StorageMissing)

\* the login flow before ensure_logged_in is entered
\* pc: the await the flow is suspended at; logged_in: what is_logged_in returned;
\* indicator: how the wait for the post-submit indicator ended; calls: calls of
\* perform_login; saved: save_session was called; outcome: how the invocation
\* ended (returned or raised); file0: the session file when it was entered
LoginIdle ==
    [pc |-> "idle", logged_in |-> "unknown", indicator |-> "none", calls |-> 0,
     saved |-> FALSE, outcome |-> "none", file0 |-> FileAbsent]

\* create_playwright_session before it is called.  arg_name, arg_password: the
\* arguments as passed; SSO_USERNAME, SSO_PASSWORD: the values config read from
\* the environment; x_name, x_password: the local variables after resolution;
\* named: the settings the ValueError message names; playwright, browser: the
\* driver and the browser process; storage_state: what new_context was given;
\* outcome: how the call ended ("returned", "ValueError", or "Error" for an
\* escaping playwright exception)
SessionIdle ==
    [pc |-> "idle", arg_name |-> "None", arg_password |-> "None",
     SSO_USERNAME |-> "", SSO_PASSWORD |-> "", x_name |-> "", x_password |-> "",
     named |-> {}, playwright |-> "none", browser |-> "none",
     storage_state |-> StorageMissing, outcome |-> "none"]

\* LoginManager.login before it is called.  via: called through login_aliyun
\* or ensure_logged_in; cause: why it did not succeed; outcome: what login
\* gives ("True", "False", "ValueError"); returned: what the caller of
\* login_aliyun or ensure_logged_in gets
ManagerIdle ==
    [pc |-> "idle", via |-> "none", username |-> "", password |-> "",
     cause |-> "none", outcome |-> "none", returned |-> "none"]

\* no selector-fallback loop running.  loop: which loop; tried: the candidates
\* invoked so far, in order of invocation, each with how it ended; element: the
\* selector whose element the loop variable (pid_input) holds, "None" for None;
\* flag: the loop's success flag (username_filled, ...); done: the loop is left
LookupIdle ==
    [loop |-> "none", tried |-> <<>>, element |-> "None", flag |-> FALSE,
     done |-> FALSE]

\* query_sms_signature before step 7.  methods: the extraction candidates
\* tried, in order; text: the text the last candidate read (a sequence of
\* characters); work_order_id: <<>> for None; outcome: what is returned
\* ("success", "not found", or "error" from the outer except); table_rows: the
\* rows method 1 saw; work_order_data: the list of that name; result: the dict
\* returned
QueryIdle ==
    [pc |-> "idle", methods |-> <<>>, text |-> <<>>, work_order_id |-> <<>>,
     outcome |-> "none", table_rows |-> <<>>, work_order_data |-> <<>>,
     result |-> [success |-> FALSE, work_order_id |-> <<>>, error |-> "none",
                 has_all_work_orders |-> FALSE, all_work_orders |-> <<>>,
                 total_count |-> 0]]

\* the time ranges of the page: dang tian, yi zhou, ben zhou, 30 tian
TimeRanges == {"dangtian", "yizhou", "benzhou", "30tian"}

\* query_sms_success_rate_multi before it is called.  time_ranges: the list;
\* calls: the query_sms_success_rate calls made, in order, each with its range,
\* its skip_pid_input and the success of its result; results: all_results
\* ['results'], "absent" for a range that is no key; success and error: the
\* fields of all_results, error.call being the call whose message error holds;
\* outcome: "return" or "IndexError"
MultiIdle ==
    [pc |-> "idle", time_ranges |-> <<>>, calls |-> <<>>,
     results |-> [tr \in TimeRanges |-> "absent"], success |-> TRUE,
     error |-> [kind |-> "None", call |-> 0], outcome |-> "none"]

\* SessionManager(session_path)
Construct(i) ==
    /\ session_data' = [session_data EXCEPT ![i] = DataNone]
    /\ last' = NoCall("__init__")
    /\ UNCHANGED <<file, now, saver, login, browser_flows>>

SaveSessionCall(i, storage_state, io) ==
    LET r == SaveSession(session_data[i], file, now, storage_state, io)
    IN  /\ file' = r.file
        /\ session_data' = [session_data EXCEPT ![i] = r.session_data]
        /\ saver' = IF r.ret = "True" THEN i
                    ELSE IF r.file = file THEN saver ELSE "none"
        /\ last' = Call("save_session", i, 0, storage_state, io,
                        session_data[i] = DataNone, r.ret, StorageMissing)
        /\ UNCHANGED <<now, login, browser_flows>>

LoadSessionCall(i) ==
    LET r == LoadSession(session_data[i], file)
    IN  /\ file' = r.file
        /\ session_data' = [session_data EXCEPT ![i] = r.session_data]
        /\ last' = Call("load_session", i, 0, StorageMissing, "ok",
                        session_data[i] = DataNone, r.ret, r.state)
        /\ UNCHANGED <<now, saver, login, browser_flows>>

IsSessionValidCall(i, max_age_hours) ==
    LET r == IsSessionValid(session_data[i], file, now, max_age_hours)
    IN  /\ file' = r.file
        /\ session_data' = [session_data EXCEPT ![i] = r.session_data]
        /\ last' = Call("is_session_valid", i, max_age_hours, StorageMissing, "ok",
                        session_data[i] = DataNone, r.ret, StorageMissing)
        /\ UNCHANGED <<now, saver, login, browser_flows>>

GetStorageStateCall(i, max_age_hours) ==
    LET r == GetStorageState(session_data[i], file, now, max_age_hours)
    IN  /\ file' = r.file
        /\ session_data' = [session_data EXCEPT ![i] = r.session_data]
        /\ last' = Call("get_storage_state", i, max_age_hours, StorageMissing, "ok",
                        session_data[i] = DataNone, r.ret, r.state)
        /\ UNCHANGED <<now, saver, login, browser_flows>>

DeleteSessionCall(i, io) ==
    LET r == DeleteSession(session_data[i], file, io)
    IN  /\ file' = r.file
        /\ session_data' = [session_data EXCEPT ![i] = r.session_data]
        /\ saver' = IF r.file = file THEN saver ELSE "none"
        /\ last' = Call("delete_session", i, 0, StorageMissing, io,
                        session_data[i] = DataNone, r.ret, StorageMissing)
        /\ UNCHANGED <<now, login, browser_flows>>

\* time passes
Tick ==
    /\ now < MaxTime
    /\ now' = now + 1
    /\ last' = NoCall("tick")
    /\ UNCHANGED <<file, session_data, saver, login, browser_flows>>

\* content the file can hold that no save_session of this class wrote: text of
\* another tool or an edit by hand
ForeignContents(t) ==
    {FileGarbage,
     FileText(DataList),
     FileText(Data("dict", StorageOne, SavedAt("missing", 0), "missing")),
     FileText(Data("dict", StorageOne, SavedAt("bad", 0), "1.0")),
     FileText(Data("dict", StorageMissing, IsoFormat(t), "1.0")),
     FileText(Data("dict", StorageNone, IsoFormat(t), "1.0")),
     FileText(Data("dict", StorageCookieStr, IsoFormat(t), "1.0"))}

ForeignWrite(content) ==
    /\ file' = content
    /\ saver' = "none"
    /\ last' = NoCall("foreign_write")
    /\ UNCHANGED <<session_data, now, login, browser_flows>>

Init ==
    /\ file = FileAbsent
    /\ session_data = [i \in Instances |-> DataNone]
    /\ now = 0
    /\ last = NoCall("start")
    /\ saver = "none"
    /\ login = LoginIdle
    /\ session = SessionIdle
    /\ manager = ManagerIdle
    /\ lookup = LookupIdle
    /\ query = QueryIdle
    /\ multi = MultiIdle

Next ==
    \/ \E i \in Instances : Construct(i)
    \/ \E i \in Instances, s \in StorageInputs : SaveSessionCall(i, s, "ok")
    \/ \E i \in Instances, io \in SaveFaults \ {"ok"} :
           SaveSessionCall(i, StorageTwo, io)
    \/ \E i \in Instances : LoadSessionCall(i)
    \/ \E i \in Instances, h \in MaxAgeChoices : IsSessionValidCall(i, h)
    \/ \E i \in Instances, h \in MaxAgeChoices : GetStorageStateCall(i, h)
    \/ \E i \in Instances, io \in DeleteFaults : DeleteSessionCall(i, io)
    \/ Tick
    \/ \E c \in ForeignContents(now) : ForeignWrite(c)

Spec == Init /\ [][Next]_vars

---------------------------------------------------------------------------
(* login_module: ensure_logged_in, is_logged_in, perform_login.  One action per
   await of the page; ok = FALSE is the awaited call raising (a navigation
   timeout, a selector that is not there). *)

\* an exception that nothing catches leaves ensure_logged_in
Raise(l) == [l EXCEPT !.pc = "done", !.outcome = "raised"]

Return(l) == [l EXCEPT !.pc = "done", !.outcome = "returned"]

\* an await outside any try block: the flow moves on, or the exception leaves
AwaitResult(l, to, ok) == IF ok THEN [l EXCEPT !.pc = to] ELSE Raise(l)

\* ensure_logged_in is called
EnsureLoggedIn ==
    /\ login.pc = "idle"
    /\ login' = [LoginIdle EXCEPT !.pc = "is_logged_in.goto", !.file0 = file]
    /\ last' = NoCall("ensure_logged_in")
    /\ UNCHANGED <<file, session_data, now, saver, browser_flows>>

\* is_logged_in: page.goto, outside the try
IsLoggedInGoto(ok) ==
    /\ login.pc = "is_logged_in.goto"
    /\ login' = AwaitResult(login, "is_logged_in.wait", ok)
    /\ last' = NoCall("is_logged_in.goto")
    /\ UNCHANGED <<file, session_data, now, saver, browser_flows>>

\* IsLoggedInWait with the verdict ignored: perform_login runs in any case
IsLoggedInWaitAlwaysLogin(found) ==
    /\ login.pc = "is_logged_in.wait"
    /\ login' = [login EXCEPT !.logged_in = IF found THEN "True" ELSE "False",
                              !.pc = "goto", !.calls = login.calls + 1]
    /\ last' = NoCall("is_logged_in.wait")
    /\ UNCHANGED <<file, session_data, now, saver, browser_flows>>

\* is_logged_in: wait_for_selector inside try/except; found = FALSE is the
\* timeout or any other error of the wait.  ensure_logged_in then returns, or
\* goes on to perform_login.
IsLoggedInWait(found) ==
    /\ login.pc = "is_logged_in.wait"
    /\ login' = IF found THEN Return([login EXCEPT !.logged_in = "True"])
                ELSE [login EXCEPT !.logged_in = "False", !.pc = "goto",
                                   !.calls = login.calls + 1]
    /\ last' = NoCall("is_logged_in.wait")
    /\ UNCHANGED <<file, session_data, now, saver, browser_flows>>

\* perform_login: page.goto
PerformLoginGoto(ok) ==
    /\ login.pc = "goto"
    /\ login' = AwaitResult(login, "fill_account", ok)
    /\ last' = NoCall("goto")
    /\ UNCHANGED <<file, session_data, now, saver, browser_flows>>

\* perform_login: page.fill("#account", x_name)
PerformLoginFillAccount(ok) ==
    /\ login.pc = "fill_account"
    /\ login' = AwaitResult(login, "fill_password", ok)
    /\ last' = NoCall("fill_account")
    /\ UNCHANGED <<file, session_data, now, saver, browser_flows>>

\* perform_login: page.fill("#password", x_password)
PerformLoginFillPassword(ok) ==
    /\ login.pc = "fill_password"
    /\ login' = AwaitResult(login, "click", ok)
    /\ last' = NoCall("fill_password")
    /\ UNCHANGED <<file, session_data, now, saver, browser_flows>>

\* perform_login: page.click on the submit button
PerformLoginClick(ok) ==
    /\ login.pc = "click"
    /\ login' = AwaitResult(login, "wait", ok)
    /\ last' = NoCall("click")
    /\ UNCHANGED <<file, session_data, now, saver, browser_flows>>

\* perform_login: the wait for the welcome heading; except Exception: pass
PerformLoginWait(found) ==
    /\ login.pc = "wait"
    /\ login' = [login EXCEPT !.pc = "storage_state",
                              !.indicator = IF found THEN "found" ELSE "timeout"]
    /\ last' = NoCall("wait")
    /\ UNCHANGED <<file, session_data, now, saver, browser_flows>>

\* PerformLoginSave with the save moved ahead of the export: the file is written
\* even when context.storage_state() raises
PerformLoginSaveBeforeExport(ok, storage_state, io) ==
    LET r == SaveSession(DataNone, file, now, storage_state, io)
    IN  /\ login.pc = "storage_state"
        /\ file' = r.file
        /\ login' = IF ok THEN Return([login EXCEPT !.saved = TRUE])
                    ELSE Raise([login EXCEPT !.saved = TRUE])
        /\ saver' = IF r.file = file THEN saver ELSE "none"
        /\ last' = Call("save_session", "login", 0, storage_state, io, TRUE,
                        r.ret, StorageMissing)
        /\ UNCHANGED <<session_data, now, browser_flows>>

\* perform_login: context.storage_state() and, when it returns, save_session on
\* a new SessionManager(SESSION_PATH); what save_session returns is dropped
PerformLoginSave(ok, storage_state, io) ==
    LET r == SaveSession(DataNone, file, now, storage_state, io)
    IN  /\ login.pc = "storage_state"
        /\ IF ok
           THEN /\ file' = r.file
                /\ login' = Return([login EXCEPT !.saved = TRUE])
                /\ saver' = IF r.file = file THEN saver ELSE "none"
                /\ last' = Call("save_session", "login", 0, storage_state, io, TRUE,
                                r.ret, StorageMissing)
           ELSE /\ login' = Raise(login)
                /\ last' = NoCall("storage_state")
                /\ UNCHANGED <<file, saver>>
        /\ UNCHANGED <<session_data, now, browser_flows>>

\* the caller is back; the next invocation can start
Finish ==
    /\ login.pc = "done"
    /\ login' = LoginIdle
    /\ last' = NoCall("finish")
    /\ UNCHANGED <<file, session_data, now, saver, browser_flows>>

LoginNext ==
    \/ EnsureLoggedIn
    \/ \E ok \in BOOLEAN : IsLoggedInGoto(ok)
    \/ \E found \in BOOLEAN : IsLoggedInWait(found)
    \/ \E ok \in BOOLEAN : PerformLoginGoto(ok)
    \/ \E ok \in BOOLEAN : PerformLoginFillAccount(ok)
    \/ \E ok \in BOOLEAN : PerformLoginFillPassword(ok)
    \/ \E ok \in BOOLEAN : PerformLoginClick(ok)
    \/ \E found \in BOOLEAN : PerformLoginWait(found)
    \/ \E s \in StorageInputs : PerformLoginSave(TRUE, s, "ok")
    \/ \E io \in SaveFaults \ {"ok"} : PerformLoginSave(TRUE, StorageTwo, io)
    \/ PerformLoginSave(FALSE, StorageTwo, "ok")
    \/ Finish
    \/ Tick

LoginSpec == Init /\ [][LoginNext]_vars

---------------------------------------------------------------------------
(* clean_storage_state as a function of its argument: it reads and writes
   nothing of the manager, so only the call record changes. *)

CookieNames == {"c1", "c2"}

\* the cookie lists with up to n entries
RECURSIVE CookieLists(_)
CookieLists(n) ==
    IF n = 0 THEN {<<>>}
    ELSE LET shorter == CookieLists(n - 1)
         IN  shorter \cup {Append(l, c) : l \in shorter, c \in CookieNames}

\* the arguments: None, and dicts with or without a cookies key (a list, or a
\* str where a list is expected), with or without an origins payload, with or
\* without an object json cannot encode; {} is among the dicts
CleanInputs ==
    {StorageNone}
    \cup {Storage("dict", "list", l, o, z) :
              l \in CookieLists(MaxCookies), o \in BOOLEAN, z \in BOOLEAN}
    \cup {Storage("dict", k, <<>>, o, z) :
              k \in {"missing", "str"}, o \in BOOLEAN, z \in BOOLEAN}

\* clean_storage_state(s) on a manager; fresh marks the call on a given argument
CleanStorageStateCall(i, storage_state) ==
    /\ last' = Call("clean_storage_state", i, 0, storage_state, "ok", TRUE,
                    "state", CleanStorageState(storage_state))
    /\ UNCHANGED <<file, session_data, now, saver, login, browser_flows>>

\* clean_storage_state applied to what the call before returned; arg stays the
\* argument of the first call
CleanStorageStateAgain ==
    /\ last.op = "clean_storage_state"
    /\ last.state.kind # "raise"
    /\ last' = [last EXCEPT !.fresh = FALSE,
                            !.state = CleanStorageState(last.state)]
    /\ UNCHANGED <<file, session_data, now, saver, login, browser_flows>>

CleanNext ==
    \/ \E i \in Instances, s \in CleanInputs : CleanStorageStateCall(i, s)
    \/ CleanStorageStateAgain

CleanSpec == Init /\ [][CleanNext]_vars

---------------------------------------------------------------------------
(* login_module: create_playwright_session.  One action per await; ok = FALSE
   is the awaited playwright call raising. *)

\* what a caller passes for x_name / x_password: nothing (None), '', or a value
NameArgs == {"None", "", "name_arg"}

PasswordArgs == {"None", "", "password_arg"}

\* what config holds for SSO_USERNAME / SSO_PASSWORD: '' when the variable is
\* not set, else its value
NameEnvs == {"", "name_env"}

PasswordEnvs == {"", "password_env"}

\* not x: None and '' are falsy
Falsy(x) == x \in {"None", ""}

\* ResolveCredential with the environment value first
ResolveCredentialEnvFirst(arg, env) == IF ~Falsy(env) THEN env ELSE arg

\* if not x_name: x_name = SSO_USERNAME
ResolveCredential(arg, env) == IF Falsy(arg) THEN env ELSE arg

\* an exception leaves create_playwright_session; nothing is closed on the way
SessionRaise(c) == [c EXCEPT !.pc = "done", !.outcome = "Error"]

SessionAwait(c, to, ok) == IF ok THEN [c EXCEPT !.pc = to] ELSE SessionRaise(c)

\* create_playwright_session is called: the credentials are resolved and checked
CreatePlaywrightSession(arg_name, arg_password, env_name, env_password) ==
    LET x_name == ResolveCredential(arg_name, env_name)
        x_password == ResolveCredential(arg_password, env_password)
        c == [SessionIdle EXCEPT !.arg_name = arg_name,
                                 !.arg_password = arg_password,
                                 !.SSO_USERNAME = env_name,
                                 !.SSO_PASSWORD = env_password,
                                 !.x_name = x_name, !.x_password = x_password]
    IN  /\ session.pc = "idle"
        /\ login.pc = "idle"
        /\ session' = IF Falsy(x_name) \/ Falsy(x_password)
                      THEN [c EXCEPT !.pc = "done", !.outcome = "ValueError",
                                     !.named = {"SSO_USERNAME", "SSO_PASSWORD"}]
                      ELSE [c EXCEPT !.pc = "start"]
        /\ last' = NoCall("create_playwright_session")
        /\ UNCHANGED <<file, session_data, now, saver, login, page_flows>>

\* async_playwright().start()
PlaywrightStart(ok) ==
    /\ session.pc = "start"
    /\ session' = IF ok THEN [session EXCEPT !.pc = "launch", !.playwright = "started"]
                  ELSE SessionRaise(session)
    /\ last' = NoCall("start")
    /\ UNCHANGED <<file, session_data, now, saver, login, page_flows>>

\* browser_launcher.launch(**launch_options)
BrowserLaunch(ok) ==
    /\ session.pc = "launch"
    /\ session' = IF ok THEN [session EXCEPT !.pc = "new_context", !.browser = "open"]
                  ELSE SessionRaise(session)
    /\ last' = NoCall("launch")
    /\ UNCHANGED <<file, session_data, now, saver, login, page_flows>>

\* SessionManager(SESSION_PATH).get_storage_state(max_age_hours=24), then
\* browser.new_context(storage_state=...)
NewContext(ok) ==
    LET r == GetStorageState(DataNone, file, now, DefaultMaxAgeHours)
        storage_state == IF r.ret = "state" THEN r.state ELSE StorageNone
    IN  /\ session.pc = "new_context"
        /\ session' = IF storage_state.kind = "raise" THEN SessionRaise(session)
                      ELSE SessionAwait([session EXCEPT !.storage_state = storage_state],
                                        "new_page", ok)
        /\ last' = Call("get_storage_state", "session", DefaultMaxAgeHours,
                        StorageMissing, "ok", TRUE, r.ret, r.state)
        /\ UNCHANGED <<file, session_data, now, saver, login, page_flows>>

\* context.new_page(), then ensure_logged_in(page, x_name, x_password) is entered
NewPage(ok) ==
    /\ session.pc = "new_page"
    /\ session' = SessionAwait(session, "ensure_logged_in", ok)
    /\ login' = IF ok THEN [LoginIdle EXCEPT !.pc = "is_logged_in.goto", !.file0 = file]
                ELSE login
    /\ last' = NoCall("new_page")
    /\ UNCHANGED <<file, session_data, now, saver, page_flows>>

\* ensure_logged_in is over: the tuple is returned, or its exception goes on up
SessionReturn ==
    /\ session.pc = "ensure_logged_in"
    /\ login.pc = "done"
    /\ session' = IF login.outcome = "returned"
                  THEN [session EXCEPT !.pc = "done", !.outcome = "returned"]
                  ELSE SessionRaise(session)
    /\ login' = LoginIdle
    /\ last' = NoCall("return")
    /\ UNCHANGED <<file, session_data, now, saver, page_flows>>

\* the caller is back; the next invocation (a next run of the program) can start
SessionFinish ==
    /\ session.pc = "done"
    /\ session' = SessionIdle
    /\ last' = NoCall("finish")
    /\ UNCHANGED <<file, session_data, now, saver, login, page_flows>>

SessionNext ==
    \/ \E an \in NameArgs, ap \in PasswordArgs, en \in NameEnvs, ep \in PasswordEnvs :
           CreatePlaywrightSession(an, ap, en, ep)
    \/ \E ok \in BOOLEAN : PlaywrightStart(ok)
    \/ \E ok \in BOOLEAN : BrowserLaunch(ok)
    \/ \E ok \in BOOLEAN : NewContext(ok)
    \/ \E ok \in BOOLEAN : NewPage(ok)
    \/ \E ok \in BOOLEAN : IsLoggedInGoto(ok)
    \/ \E found \in BOOLEAN : IsLoggedInWait(found)
    \/ \E ok \in BOOLEAN : PerformLoginGoto(ok)
    \/ \E ok \in BOOLEAN : PerformLoginFillAccount(ok)
    \/ \E ok \in BOOLEAN : PerformLoginFillPassword(ok)
    \/ \E ok \in BOOLEAN : PerformLoginClick(ok)
    \/ \E found \in BOOLEAN : PerformLoginWait(found)
    \/ \E s \in {StorageNoCookies, StorageTwo} : PerformLoginSave(TRUE, s, "ok")
    \/ PerformLoginSave(FALSE, StorageTwo, "ok")
    \/ SessionReturn
    \/ SessionFinish
    \/ Tick

SessionSpec == Init /\ [][SessionNext]_vars

---------------------------------------------------------------------------
(* Selector-fallback loops: the PID input in query_qualification_work_order
   and in test_local.main, and the username, password and submit lookups of
   LoginManager.login.  One action per loop iteration: the candidate's awaits
   end in one of the ways the loop body tells apart. *)

\* the selector lists of the source; the Chinese placeholder and button texts
\* are written in pinyin
pid_selector == <<"#UserId", "input#UserId", "input[placeholder=\"qingshuru\"]">>

pid_selectors == <<"#UserId", "input[placeholder=\"qingshuru\"]">>

username_selectors ==
    <<"input[type=\"text\"]", "input[name=\"username\"]",
      "input[autocomplete=\"username\"]", "input[name=\"loginName\"]",
      "#username", "input[placeholder*=\"yonghuming\"]">>

password_selectors ==
    <<"input[type=\"password\"]", "input[name=\"password\"]", "#password",
      "input[placeholder*=\"mima\"]">>

login_selectors ==
    <<"button[type=\"submit\"]", "input[type=\"submit\"]",
      "button:has-text(\"denglu\")">>

\* the candidate list a loop iterates over
Selectors(loop) ==
    CASE loop = "pid_selector" -> pid_selector
      [] loop = "pid_selectors" -> pid_selectors
      [] loop = "username_selectors" -> username_selectors
      [] loop = "password_selectors" -> password_selectors
      [] loop = "login_selectors" -> login_selectors

\* the loop is entered
LookupStart(loop) == [LookupIdle EXCEPT !.loop = loop]

\* how a candidate can end.  query_qualification_work_order: wait_for_selector
\* returns the element or raises
QualificationOutcomes == {"found", "raise"}

\* test_local.main: query_selector returns None, a visible or a hidden element,
\* or raises; is_visible can raise too
LocalOutcomes == {"none", "visible", "hidden", "query_raise", "visible_raise"}

\* LoginManager.login: the element was found and acted on, wait_for_selector
\* raised, or scroll / click / fill raised
LoginOutcomes == {"acted", "wait_raise", "action_raise"}

\* the candidate supplied the element or did the filling / clicking
Succeeded(outcome) == outcome \in {"found", "visible", "acted"}

\* one iteration of a for loop over Selectors(l.loop): the next candidate in
\* the list is invoked; leave = TRUE is the break
Iterate(l, outcome, element, flag, leave) ==
    LET selector == Selectors(l.loop)[Len(l.tried) + 1]
    IN  [l EXCEPT !.tried = Append(l.tried, [selector |-> selector, outcome |-> outcome]),
                  !.element = IF element = "this" THEN selector
                              ELSE IF element = "None" THEN "None" ELSE l.element,
                  !.flag = l.flag \/ flag,
                  !.done = leave \/ Len(l.tried) + 1 = Len(Selectors(l.loop))]

\* QualificationStep without the break
QualificationStepNoBreak(l, outcome) ==
    IF outcome = "found" THEN Iterate(l, outcome, "this", FALSE, FALSE)
    ELSE Iterate(l, outcome, "keep", FALSE, FALSE)

\* for selector in pid_selector: pid_input = await wait_for_selector(...); break
\* / except: continue
QualificationStep(l, outcome) ==
    IF outcome = "found" THEN Iterate(l, outcome, "this", FALSE, TRUE)
    ELSE Iterate(l, outcome, "keep", FALSE, FALSE)

\* for selector in pid_selectors: pid_input = await query_selector(...); a
\* visible element breaks, a hidden one is dropped (pid_input = None); when
\* is_visible raises pid_input keeps the element
LocalStep(l, outcome) ==
    CASE outcome = "none" -> Iterate(l, outcome, "None", FALSE, FALSE)
      [] outcome = "visible" -> Iterate(l, outcome, "this", FALSE, TRUE)
      [] outcome = "hidden" -> Iterate(l, outcome, "None", FALSE, FALSE)
      [] outcome = "query_raise" -> Iterate(l, outcome, "keep", FALSE, FALSE)
      [] outcome = "visible_raise" -> Iterate(l, outcome, "this", FALSE, FALSE)

\* for selector in username_selectors (password_selectors, login_selectors):
\* wait, scroll, click, fill; the flag is set and the loop left on success
LoginStep(l, outcome) ==
    IF outcome = "acted" THEN Iterate(l, outcome, "this", TRUE, TRUE)
    ELSE Iterate(l, outcome, "keep", FALSE, FALSE)

\* the PID lookup of query_qualification_work_order or of test_local.main starts
PidLookup(loop) ==
    /\ lookup.loop = "none"
    /\ manager.pc = "idle"
    /\ lookup' = LookupStart(loop)
    /\ last' = NoCall(loop)
    /\ UNCHANGED <<file, session_data, now, saver, login, session, manager, query, multi>>

QualificationPidCandidate(outcome) ==
    /\ lookup.loop = "pid_selector"
    /\ ~lookup.done
    /\ lookup' = QualificationStep(lookup, outcome)
    /\ last' = NoCall("wait_for_selector")
    /\ UNCHANGED <<file, session_data, now, saver, login, session, manager, query, multi>>

LocalPidCandidate(outcome) ==
    /\ lookup.loop = "pid_selectors"
    /\ ~lookup.done
    /\ lookup' = LocalStep(lookup, outcome)
    /\ last' = NoCall("query_selector")
    /\ UNCHANGED <<file, session_data, now, saver, login, session, manager, query, multi>>

\* after the loop: if not pid_input: return (not found); else the element is
\* clicked and filled
PidLookupExit ==
    /\ lookup.loop \in {"pid_selector", "pid_selectors"}
    /\ lookup.done
    /\ lookup' = LookupIdle
    /\ last' = [NoCall("pid_input") EXCEPT
                    !.ret = IF lookup.element = "None" THEN "not found"
                            ELSE lookup.element]
    /\ UNCHANGED <<file, session_data, now, saver, login, session, manager, query, multi>>

---------------------------------------------------------------------------
(* test/login_guanwang.py: LoginManager.login, called by login_aliyun (which
   initializes the browser first and closes it afterwards) or by the
   module's ensure_logged_in on a page it was given. *)

\* login is over: outcome is what its caller gets, cause why it did not succeed
ManagerEnd(m, outcome, cause) ==
    [m EXCEPT !.pc = "returned", !.outcome = outcome, !.cause = cause]

\* if not username or not password: raise ValueError(error_msg)
CheckCredentials(m) ==
    IF Falsy(m.username) \/ Falsy(m.password) THEN ManagerEnd(m, "ValueError", "config")
    ELSE [m EXCEPT !.pc = "goto"]

\* login_aliyun(session_manager, username, password) or ensure_logged_in(page,
\* username, password) is called; username and password default to
\* ALIYUN_USERNAME and ALIYUN_PASSWORD
ManagerLogin(via, arg_name, arg_password, env_name, env_password) ==
    LET m == [ManagerIdle EXCEPT !.via = via,
                                 !.username = ResolveCredential(arg_name, env_name),
                                 !.password = ResolveCredential(arg_password, env_password)]
    IN  /\ manager.pc = "idle"
        /\ lookup.loop = "none"
        /\ manager' = IF via = "login_aliyun" THEN [m EXCEPT !.pc = "initialize"]
                      ELSE CheckCredentials(m)
        /\ last' = NoCall(via)
        /\ UNCHANGED <<file, session_data, now, saver, login, session, lookup, query, multi>>

\* login_aliyun: login_manager.initialize(); what it raises is caught by
\* except Exception and login_aliyun returns False
ManagerInitialize(ok) ==
    /\ manager.pc = "initialize"
    /\ manager' = IF ok THEN CheckCredentials(manager)
                  ELSE ManagerEnd(manager, "False", "browser")
    /\ last' = NoCall("initialize")
    /\ UNCHANGED <<file, session_data, now, saver, login, session, lookup, query, multi>>

\* login: page.goto(LOGIN_URL) and the inspection of the page up to the
\* selector loops; an exception is caught by except Exception: return False
ManagerGoto(ok) ==
    /\ manager.pc = "goto"
    /\ manager' = IF ok THEN [manager EXCEPT !.pc = "username_selectors"]
                  ELSE ManagerEnd(manager, "False", "timeout")
    /\ lookup' = IF ok THEN LookupStart("username_selectors") ELSE lookup
    /\ last' = NoCall("goto")
    /\ UNCHANGED <<file, session_data, now, saver, login, session, query, multi>>

\* login: one candidate of the selector loop that is running
LoginCandidate(outcome) ==
    /\ lookup.loop \in {"username_selectors", "password_selectors", "login_selectors"}
    /\ ~lookup.done
    /\ lookup' = LoginStep(lookup, outcome)
    /\ last' = NoCall("wait_for_selector")
    /\ UNCHANGED <<file, session_data, now, saver, login, session, manager, query, multi>>

\* login: after a selector loop.  if not username_filled: raise ValueError (and
\* likewise for the password and the button), which except ValueError: raise
\* passes on; else the next loop, or the wait for the login to succeed
LoginLoopExit ==
    /\ lookup.loop \in {"username_selectors", "password_selectors", "login_selectors"}
    /\ lookup.done
    /\ IF ~lookup.flag
       THEN /\ manager' = ManagerEnd(manager, "ValueError", "selector")
            /\ lookup' = LookupIdle
       ELSE IF lookup.loop = "username_selectors"
       THEN /\ manager' = [manager EXCEPT !.pc = "password_selectors"]
            /\ lookup' = LookupStart("password_selectors")
       ELSE IF lookup.loop = "password_selectors"
       THEN /\ manager' = [manager EXCEPT !.pc = "login_selectors"]
            /\ lookup' = LookupStart("login_selectors")
       ELSE /\ manager' = [manager EXCEPT !.pc = "verify"]
            /\ lookup' = LookupIdle
    /\ last' = NoCall("loop_exit")
    /\ UNCHANGED <<file, session_data, now, saver, login, session, query, multi>>

\* login: wait_for_url (a timeout is only logged), then wait_for_load_state and
\* the look at the URL: True, False when still on the login page, False when
\* the wait raises
ManagerVerify(result) ==
    /\ manager.pc = "verify"
    /\ manager' = CASE result = "ok" -> ManagerEnd(manager, "True", "none")
                    [] result = "still_login" -> ManagerEnd(manager, "False", "rejected")
                    [] result = "raise" -> ManagerEnd(manager, "False", "timeout")
    /\ last' = NoCall("verify")
    /\ UNCHANGED <<file, session_data, now, saver, login, session, lookup, query, multi>>

\* the session is saved whatever login returned
ManagerReturnSavesAlways(ok, storage_state, io) ==
    LET own == manager.via = "login_aliyun"
        r == SaveSession(IF own THEN session_data["a"] ELSE DataNone,
                         file, now, storage_state, io)
        saved == ok
    IN  /\ manager.pc = "returned"
        /\ manager' = [manager EXCEPT !.pc = "done", !.returned = manager.outcome]
        /\ file' = IF saved THEN r.file ELSE file
        /\ session_data' = IF saved /\ own
                           THEN [session_data EXCEPT !["a"] = r.session_data]
                           ELSE session_data
        /\ saver' = IF saved /\ r.ret = "True" THEN (IF own THEN "a" ELSE "none")
                    ELSE IF saved /\ r.file # file THEN "none" ELSE saver
        /\ last' = IF saved
                   THEN Call("save_session", IF own THEN "a" ELSE "login", 0,
                             storage_state, io, ~own, r.ret, StorageMissing)
                   ELSE NoCall("return")
        /\ UNCHANGED <<now, login, session, lookup, query, multi>>

\* the caller of login: on success LoginManager.save_session (context.
\* storage_state(), ok = FALSE when it raises, then save_session on the session
\* manager: the caller's in login_aliyun, a new one in ensure_logged_in; what
\* it returns is dropped); login_aliyun closes the browser on every path and
\* returns what login returned or re-raises; ensure_logged_in returns None
ManagerReturn(ok, storage_state, io) ==
    LET own == manager.via = "login_aliyun"
        r == SaveSession(IF own THEN session_data["a"] ELSE DataNone,
                         file, now, storage_state, io)
        saved == manager.outcome = "True" /\ ok
    IN  /\ manager.pc = "returned"
        /\ manager' = [manager EXCEPT
                           !.pc = "done",
                           !.returned = IF own \/ manager.outcome = "ValueError"
                                        THEN manager.outcome ELSE "None"]
        /\ file' = IF saved THEN r.file ELSE file
        /\ session_data' = IF saved /\ own
                           THEN [session_data EXCEPT !["a"] = r.session_data]
                           ELSE session_data
        /\ saver' = IF saved /\ r.ret = "True" THEN (IF own THEN "a" ELSE "none")
                    ELSE IF saved /\ r.file # file THEN "none" ELSE saver
        /\ last' = IF saved
                   THEN Call("save_session", IF own THEN "a" ELSE "login", 0,
                             storage_state, io, ~own, r.ret, StorageMissing)
                   ELSE NoCall("return")
        /\ UNCHANGED <<now, login, session, lookup, query, multi>>

\* the caller is back; the next invocation can start
ManagerFinish ==
    /\ manager.pc = "done"
    /\ manager' = ManagerIdle
    /\ last' = NoCall("finish")
    /\ UNCHANGED <<file, session_data, now, saver, login, session, lookup, query, multi>>

SelectorNext ==
    \/ \E loop \in {"pid_selector", "pid_selectors"} : PidLookup(loop)
    \/ \E outcome \in QualificationOutcomes : QualificationPidCandidate(outcome)
    \/ \E outcome \in LocalOutcomes : LocalPidCandidate(outcome)
    \/ PidLookupExit
    \/ \E via \in {"login_aliyun", "ensure_logged_in"},
          an \in NameArgs, ap \in PasswordArgs, en \in NameEnvs, ep \in PasswordEnvs :
           ManagerLogin(via, an, ap, en, ep)
    \/ \E ok \in BOOLEAN : ManagerInitialize(ok)
    \/ \E ok \in BOOLEAN : ManagerGoto(ok)
    \/ \E outcome \in LoginOutcomes : LoginCandidate(outcome)
    \/ LoginLoopExit
    \/ \E result \in {"ok", "still_login", "raise"} : ManagerVerify(result)
    \/ \E ok \in BOOLEAN, storage_state \in {StorageTwo, StorageUnserializable},
          io \in SaveFaults :
           ManagerReturn(ok, storage_state, io)
    \/ ManagerFinish

SelectorSpec == Init /\ [][SelectorNext]_vars

---------------------------------------------------------------------------
(* utils: extract_work_order_id, and step 7 of query_sms_signature, the
   extraction of the work-order id: the table rows, then div.break-all, then
   the table cells. *)

\* the characters 0-9, of which the texts of the model use two
AsciiDigits == {"1", "2"}

\* a decimal digit outside ASCII: "U1" stands for the full-width digit one
\* (U+FF11)
UnicodeDigits == {"U1"}

\* what \d matches in a str pattern compiled without re.ASCII: every Unicode
\* decimal digit
Digits == AsciiDigits \cup UnicodeDigits

\* a digit, a letter, a blank
Chars == Digits \cup {"a", " "}

\* the texts with up to n characters
RECURSIVE Texts(_)
Texts(n) ==
    IF n = 0 THEN {<<>>}
    ELSE LET shorter == Texts(n - 1)
         IN  shorter \cup {Append(t, c) : t \in shorter, c \in Chars}

\* text.strip()
RECURSIVE Strip(_)
Strip(text) ==
    IF text = <<>> THEN text
    ELSE IF Head(text) = " " THEN Strip(Tail(text))
    ELSE IF text[Len(text)] = " " THEN Strip(SubSeq(text, 1, Len(text) - 1))
    ELSE text

\* the longest run of digits text starts with
RECURSIVE DigitRun(_)
DigitRun(text) ==
    IF text = <<>> \/ Head(text) \notin Digits THEN <<>>
    ELSE <<Head(text)>> \o DigitRun(Tail(text))

\* re.search(r'\d+', text): the leftmost run of digits, <<>> when there is none
RECURSIVE Search(_)
Search(text) ==
    IF text = <<>> THEN <<>>
    ELSE IF Head(text) \in Digits THEN DigitRun(text)
    ELSE Search(Tail(text))

\* extract_work_order_id: None (<<>>) for an empty text or one without a digit
extract_work_order_id(text) ==
    IF text = <<>> THEN <<>> ELSE Search(Strip(text))

\* datetime.min, what parse_datetime returns for a text it cannot parse
DatetimeMin == 0

\* the text of a third cell: empty, blanks only, a text strptime rejects, or
\* "YYYY-MM-DD HH:MM:SS" for the moment t; moment DatetimeMin is written
\* "0001-01-01 00:00:00"
ModifyTime(k, t) == [k |-> k, t |-> t]

ModifyTimes ==
    {ModifyTime(k, DatetimeMin) : k \in {"empty", "blank", "bad"}}
        \cup {ModifyTime("ts", t) : t \in DatetimeMin..MaxStamp}

\* modify_time_text.strip()
StripTime(modify_time_text) ==
    IF modify_time_text.k = "blank" THEN ModifyTime("empty", DatetimeMin)
    ELSE modify_time_text

\* parse_datetime: strptime of the stripped text, datetime.min when it fails
parse_datetime(date_str) ==
    IF StripTime(date_str).k = "ts" THEN date_str.t ELSE DatetimeMin

\* the sign name the caller asks for, and another one
sign_name == "sign"

SignNames == {sign_name, "other"}

\* the work-order text of the row at position idx (from 1) when it holds an id
RowIdText(idx) == IF idx = 1 THEN <<"1">> ELSE IF idx = 2 THEN <<"2">> ELSE <<"1", "2">>

\* a table row: cells "ok" (the three cells are there), "missing" (one is
\* not), "raise" (a call on the row raises); the texts of the three cells
Row(cells, work_order_text, sign_name_text, modify_time_text) ==
    [cells |-> cells, work_order_text |-> work_order_text,
     sign_name_text |-> sign_name_text, modify_time_text |-> modify_time_text]

RowInputs(idx) ==
    {Row("ok", w, s, m) : w \in {RowIdText(idx), <<"a">>}, s \in SignNames,
                          m \in ModifyTimes}
        \cup {Row(c, <<>>, sign_name, ModifyTime("empty", DatetimeMin)) :
                  c \in {"missing", "raise"}}

\* the tables with n rows
RECURSIVE Tables(_)
Tables(n) ==
    IF n = 0 THEN {<<>>}
    ELSE {Append(t, r) : t \in Tables(n - 1), r \in RowInputs(n)}

TableInputs == UNION {Tables(n) : n \in 0..MaxRows}

\* the body of the loop over table_rows for the row at position idx (from 1;
\* enumerate counts from 0): the entry appended to work_order_data, none when
\* the row is skipped
RowEntry(row, idx) ==
    IF row.cells # "ok" THEN <<>>
    ELSE IF row.sign_name_text # sign_name THEN <<>>
    ELSE LET extracted_id == extract_work_order_id(row.work_order_text)
             modify_time == StripTime(row.modify_time_text)
         IN  IF extracted_id # <<>> /\ modify_time.k # "empty"
             THEN <<[work_order_id |-> extracted_id, modify_time |-> modify_time,
                     sign_name |-> row.sign_name_text, row_index |-> idx - 1]>>
             ELSE <<>>

\* the loop over table_rows, rows idx.. of the table
RECURSIVE RowEntries(_, _)
RowEntries(table_rows, idx) ==
    IF idx > Len(table_rows) THEN <<>>
    ELSE RowEntry(table_rows[idx], idx) \o RowEntries(table_rows, idx + 1)

\* one entry put into a list sorted latest first, behind the entries that are
\* no earlier
RECURSIVE InsertLatestFirst(_, _)
InsertLatestFirst(entry, sorted) ==
    IF sorted = <<>> THEN <<entry>>
    ELSE IF parse_datetime(Head(sorted).modify_time) >= parse_datetime(entry.modify_time)
         THEN <<Head(sorted)>> \o InsertLatestFirst(entry, Tail(sorted))
    ELSE <<entry>> \o sorted

\* work_order_data.sort(key=parse_datetime(modify_time), reverse=True): latest
\* first, entries of equal key in their order in the page
RECURSIVE SortLatestFirst(_)
SortLatestFirst(data) ==
    IF data = <<>> THEN <<>>
    ELSE InsertLatestFirst(data[Len(data)],
                           SortLatestFirst(SubSeq(data, 1, Len(data) - 1)))

\* the dict query_sms_signature returns: error "None" or the kind of message;
\* has_all_work_orders: the keys all_work_orders and total_count are there
QueryResult(success, work_order_id, error, has_all_work_orders, all_work_orders) ==
    [success |-> success, work_order_id |-> work_order_id, error |-> error,
     has_all_work_orders |-> has_all_work_orders,
     all_work_orders |-> all_work_orders, total_count |-> Len(all_work_orders)]

NoResult == QueryResult(FALSE, <<>>, "none", FALSE, <<>>)

\* the not-found case raises instead of returning the failure dict
QueryReturnRaisesNotFound(q) ==
    [q EXCEPT !.pc = "done",
              !.outcome = IF q.work_order_id # <<>> THEN "success" ELSE "raise",
              !.result = IF q.work_order_id # <<>>
                         THEN QueryResult(TRUE, q.work_order_id, "None",
                                          q.work_order_data # <<>>, q.work_order_data)
                         ELSE NoResult]

\* the success dict carries the keys of the rows whether there are rows or not
QueryReturnAlwaysRows(q) ==
    [q EXCEPT !.pc = "done",
              !.outcome = IF q.work_order_id # <<>> THEN "success" ELSE "not found",
              !.result = IF q.work_order_id # <<>>
                         THEN QueryResult(TRUE, q.work_order_id, "None", TRUE,
                                          q.work_order_data)
                         ELSE QueryResult(FALSE, <<>>, "not found", TRUE, <<>>)]

\* query_sms_signature returns; work_order_id decides between the success
\* dict and the not-found dict
QueryReturn(q) ==
    [q EXCEPT !.pc = "done",
              !.outcome = IF q.work_order_id # <<>> THEN "success" ELSE "not found",
              !.result = IF q.work_order_id # <<>>
                         THEN QueryResult(TRUE, q.work_order_id, "None",
                                          q.work_order_data # <<>>, q.work_order_data)
                         ELSE QueryResult(FALSE, <<>>, "not found", FALSE, <<>>)]

\* an exception reaches the outer except of query_sms_signature
QueryError(q) ==
    [q EXCEPT !.pc = "done", !.outcome = "error",
              !.result = QueryResult(FALSE, <<>>, "error", FALSE, <<>>)]

Tried(q, method, text) ==
    [q EXCEPT !.methods = Append(q.methods, method), !.text = text,
              !.work_order_id = extract_work_order_id(text)]

\* the first cell whose text holds an id supplies it
RECURSIVE FirstId(_)
FirstId(cells) ==
    IF cells = <<>> THEN <<>>
    ELSE IF extract_work_order_id(Head(cells)) # <<>> THEN Head(cells)
    ELSE FirstId(Tail(cells))

\* query_sms_signature, steps 1 to 6: goto, wait_for_selector, fill, fill,
\* click, sleep.  ok = FALSE: one of them raises, and the outer except returns
\* the error dict; else step 7 begins
QuerySmsSignature(ok) ==
    /\ query.pc = "idle"
    /\ query' = IF ok THEN [QueryIdle EXCEPT !.pc = "table"]
                ELSE QueryError(QueryIdle)
    /\ last' = NoCall("query_sms_signature")
    /\ UNCHANGED <<file, session_data, now, saver, login, session, manager, lookup, multi>>

\* method 1: the table rows.  ok = FALSE: query_selector_all raises (caught and
\* printed); else table_rows are the rows of the page: the rows of the
\* signature with an id and a time are collected and sorted, and the first
\* supplies the id
TableMethod(ok, table_rows) ==
    LET rows == IF ok THEN table_rows ELSE <<>>
        work_order_data == SortLatestFirst(RowEntries(rows, 1))
        q == [query EXCEPT !.methods = Append(query.methods, "table"),
                           !.table_rows = rows,
                           !.work_order_data = work_order_data,
                           !.work_order_id =
                               IF work_order_data # <<>>
                               THEN work_order_data[1].work_order_id ELSE <<>>]
    IN  /\ query.pc = "table"
        /\ query' = IF q.work_order_id # <<>> THEN QueryReturn(q)
                    ELSE [q EXCEPT !.pc = "primary"]
        /\ last' = NoCall("table")
        /\ UNCHANGED <<file, session_data, now, saver, login, session, manager, lookup, multi>>

\* method 2: wait_for_selector(div.break-all).  "timeout": PlaywrightTimeoutError,
\* the cells are tried next; "error": another exception, which no handler of
\* method 2 catches; "found": text is the element's inner text, and the id
\* extracted from it, or None, is final
PrimaryMethod(result, text) ==
    LET q == Tried(query, "primary", IF result = "found" THEN text ELSE <<>>)
    IN  /\ query.pc = "primary"
        /\ query' = CASE result = "timeout" -> [q EXCEPT !.pc = "fallback"]
                      [] result = "error" -> QueryError(q)
                      [] result = "found" -> QueryReturn(q)
        /\ last' = NoCall("primary")
        /\ UNCHANGED <<file, session_data, now, saver, login, session, manager, lookup, multi>>

\* the except branch of method 2: query_selector_all(td...) and the first cell
\* with an id; ok = FALSE: an exception, caught and printed
FallbackMethod(ok, cells) ==
    /\ query.pc = "fallback"
    /\ query' = QueryReturn(Tried(query, "fallback", IF ok THEN FirstId(cells) ELSE <<>>))
    /\ last' = NoCall("fallback")
    /\ UNCHANGED <<file, session_data, now, saver, login, session, manager, lookup, multi>>

\* the caller has the result; the next query can start
QueryFinish ==
    /\ query.pc = "done"
    /\ query' = QueryIdle
    /\ last' = NoCall("finish")
    /\ UNCHANGED <<file, session_data, now, saver, login, session, manager, lookup, multi>>

QueryNext ==
    \/ \E ok \in BOOLEAN : QuerySmsSignature(ok)
    \/ \E ok \in BOOLEAN, table_rows \in TableInputs : TableMethod(ok, table_rows)
    \/ \E result \in {"timeout", "error", "found"}, text \in Texts(MaxText) :
           PrimaryMethod(result, text)
    \/ \E ok \in BOOLEAN, t1 \in {<<"a">>, <<"1">>}, t2 \in Texts(MaxText - 1) :
           FallbackMethod(ok, <<t1, t2>>)
    \/ QueryFinish

QuerySpec == Init /\ [][QueryNext]_vars

---------------------------------------------------------------------------
(* utils.sms_success_rate_query: query_sms_success_rate_multi.  Every
   query_sms_success_rate call returns a dict with the key success: the early
   return for a missing PID, the results of the body, the two except
   branches. *)

\* time_ranges when the argument is None
DefaultTimeRanges == <<"dangtian", "yizhou", "benzhou", "30tian">>

\* the lists of n time ranges
RECURSIVE RangeLists(_)
RangeLists(n) ==
    IF n = 0 THEN {<<>>}
    ELSE {Append(l, tr) : l \in RangeLists(n - 1), tr \in TimeRanges}

\* None (<<"None">>) or a list of up to MaxRanges time ranges
TimeRangeArgs == {<<"None">>} \cup UNION {RangeLists(n) : n \in 0..MaxRanges}

\* one query_sms_success_rate call and all_results['results'][tr] = result
Queried(m, tr, skip_pid_input, success) ==
    [m EXCEPT !.calls = Append(m.calls, [time_range |-> tr,
                                         skip_pid_input |-> skip_pid_input,
                                         success |-> success]),
              !.results[tr] = IF success THEN "True" ELSE "False"]

MultiReturn(m) == [m EXCEPT !.pc = "done", !.outcome = "return"]

\* query_sms_success_rate_multi is called: the default list for None, then
\* all_results; first_time_range = time_ranges[0] raises IndexError for []
QuerySmsSuccessRateMulti(arg) ==
    LET time_ranges == IF arg = <<"None">> THEN DefaultTimeRanges ELSE arg
        m == [MultiIdle EXCEPT !.time_ranges = time_ranges]
    IN  /\ multi.pc = "idle"
        /\ multi' = IF time_ranges = <<>>
                    THEN [m EXCEPT !.pc = "done", !.outcome = "IndexError"]
                    ELSE [m EXCEPT !.pc = "first"]
        /\ last' = NoCall("query_sms_success_rate_multi")
        /\ UNCHANGED <<file, session_data, now, saver, login, session, manager,
                       lookup, query>>

\* the first query, with the PID input; when it fails all_results is returned
\* at once, and also when it was the only range
FirstQuery(success) ==
    LET m == Queried(multi, multi.time_ranges[1], FALSE, success)
    IN  /\ multi.pc = "first"
        /\ multi' = IF ~success
                    THEN MultiReturn([m EXCEPT !.success = FALSE,
                                               !.error = [kind |-> "first", call |-> 1]])
                    ELSE IF Len(multi.time_ranges) = 1 THEN MultiReturn(m)
                    ELSE [m EXCEPT !.pc = "later"]
        /\ last' = NoCall("first_query")
        /\ UNCHANGED <<file, session_data, now, saver, login, session, manager,
                       lookup, query>>

\* the error of every failing range replaces the one before
LaterQueryErrorOfLast(success) ==
    LET call == Len(multi.calls) + 1
        q == Queried(multi, multi.time_ranges[call], TRUE, success)
        m == IF success THEN q
             ELSE [q EXCEPT !.success = FALSE,
                            !.error = [kind |-> "later", call |-> call]]
    IN  /\ multi.pc = "later"
        /\ multi' = IF call = Len(multi.time_ranges) THEN MultiReturn(m) ELSE m
        /\ last' = NoCall("later_query")
        /\ UNCHANGED <<file, session_data, now, saver, login, session, manager,
                       lookup, query>>

\* for tr in time_ranges[1:]: the query that only switches the time range;
\* after the last one all_results is returned
LaterQuery(success) ==
    LET call == Len(multi.calls) + 1
        q == Queried(multi, multi.time_ranges[call], TRUE, success)
        m == IF success THEN q
             ELSE [q EXCEPT !.success = FALSE,
                            !.error = IF q.error.kind = "None"
                                      THEN [kind |-> "later", call |-> call]
                                      ELSE q.error]
    IN  /\ multi.pc = "later"
        /\ multi' = IF call = Len(multi.time_ranges) THEN MultiReturn(m) ELSE m
        /\ last' = NoCall("later_query")
        /\ UNCHANGED <<file, session_data, now, saver, login, session, manager,
                       lookup, query>>

\* the caller has all_results; the next call can start
MultiFinish ==
    /\ multi.pc = "done"
    /\ multi' = MultiIdle
    /\ last' = NoCall("finish")
    /\ UNCHANGED <<file, session_data, now, saver, login, session, manager,
                   lookup, query>>

MultiNext ==
    \/ \E arg \in TimeRangeArgs : QuerySmsSuccessRateMulti(arg)
    \/ \E success \in BOOLEAN : FirstQuery(success)
    \/ \E success \in BOOLEAN : LaterQuery(success)
    \/ MultiFinish

MultiSpec == Init /\ [][MultiNext]_vars

---------------------------------------------------------------------------
(* Properties *)

---------------------------------------------------------------------------
(* Properties of the session file and its managers *)

\* the record save_session(storage_state) writes at instant t
SavedRecord(storage_state, t) == Data("dict", storage_state, IsoFormat(t), "1.0")

\* the file holds a well-formed record: a JSON object with a parsable saved_at
\* and a storage_state object whose cookies are a list
WellFormed(f) ==
    /\ f.kind = "text"
    /\ f.doc.kind = "dict"
    /\ f.doc.saved_at.k = "ts"
    /\ f.doc.storage_state.kind = "dict"
    /\ f.doc.storage_state.cookieKind = "list"

\* now - saved_at <= H hours, for the record in the file
WithinAge(f, t, max_age_hours) ==
    (t - f.doc.saved_at.t) * HoursPerTick <= max_age_hours

\* C2 as stated: for a well-formed persisted record, is_session_valid(H)
\* returns true exactly when now - saved_at <= H hours and the cookie list is
\* not empty.
C2_ValidIffWithinAgeAndCookies ==
    (last.op = "is_session_valid" /\ WellFormed(file))
        => (last.ret = "True"
              <=> (/\ WithinAge(file, now, last.max_age_hours)
                   /\ Len(file.doc.storage_state.cookies) > 0))

\* the persisted content has a missing or malformed field, as C3 lists them:
\* file absent, content not parsable, saved_at absent, saved_at no timestamp,
\* storage_state missing, cookies missing or empty
Malformed(f) ==
    \/ f.kind \in {"absent", "garbage"}
    \/ /\ f.kind = "text"
       /\ f.doc.kind = "dict"
       /\ \/ f.doc.saved_at.k \in {"missing", "bad"}
          \/ f.doc.storage_state.kind = "missing"
          \/ /\ f.doc.storage_state.kind = "dict"
             /\ \/ f.doc.storage_state.cookieKind = "missing"
                \/ /\ f.doc.storage_state.cookieKind = "list"
                   /\ Len(f.doc.storage_state.cookies) = 0

\* C3 as stated: is_session_valid never raises, and returns false whenever the
\* persisted content has a missing or malformed field.
C3_FailsClosed ==
    last.op = "is_session_valid"
        => (/\ last.ret \in {"True", "False"}
            /\ Malformed(file) => last.ret = "False")

\* C4 as stated: a save attempt leaves in the file either what was there before
\* or the complete new record {storage_state, saved_at, version}.
C4_SaveIsAtomic ==
    [][last'.op = "save_session"
         => (file' = file \/ file' = FileText(SavedRecord(last'.arg, now)))]_vars

\* C5: save_session never raises; it returns false when creating the directory,
\* opening, serializing or writing fails, and true only when the file holds the
\* full record of its argument.
C5_SaveNeverRaises ==
    last.op = "save_session"
        => (/\ last.ret \in {"True", "False"}
            /\ (last.io # "ok" \/ ~last.arg.serializable) => last.ret = "False"
            /\ last.ret = "True" => file = FileText(SavedRecord(last.arg, now)))

\* C5 witness: a save whose write failed returned false
C5_FailedSaveReturnedFalse ==
    /\ last.op = "save_session"
    /\ last.io = "write"
    /\ last.ret = "False"
    /\ file = FileGarbage

\* C6: load_session never raises, and returns None when the file does not
\* exist, is no parsable JSON, parses to something that is no object, or is an
\* object with no storage_state.
C6_LoadNeverRaises ==
    last.op = "load_session"
        => (/\ last.ret \in {"None", "state"}
            /\ (\/ file.kind \in {"absent", "garbage"}
                \/ file.doc.kind # "dict"
                \/ file.doc.storage_state.kind = "missing") => last.ret = "None")

\* C6 witness: load_session returned None on a file that parses to a list
C6_LoadedNonRecord ==
    /\ last.op = "load_session"
    /\ file = FileText(DataList)
    /\ last.ret = "None"

\* C7 as stated: delete_session on an absent file leaves it absent and returns
\* true.
C7_DeleteAbsentReturnsTrue ==
    [][(last'.op = "delete_session" /\ file.kind = "absent")
         => (file'.kind = "absent" /\ last'.ret = "True")]_vars

\* C7 amended: delete_session never raises; on an absent file it leaves the
\* file absent and returns false; it returns true exactly when it removed an
\* existing file.
C7_DeleteAbsentReturnsFalse ==
    [][last'.op = "delete_session"
         => (/\ last'.ret \in {"True", "False"}
             /\ file.kind = "absent" => (file'.kind = "absent" /\ last'.ret = "False")
             /\ last'.ret = "True" <=> (file.kind # "absent" /\ file'.kind = "absent")
             /\ last'.ret = "False" => file' = file)]_vars

\* C7 witness: a delete that met no fault returned false, the file being absent
C7_DeletedNothing ==
    /\ last.op = "delete_session"
    /\ last.io = "ok"
    /\ last.ret = "False"
    /\ file.kind = "absent"

\* the file is what a successful save_session wrote, for a state with at least
\* one cookie, and the manager of the last call is the saving one or had no
\* session_data before the call
AfterSaveOf(inst, fresh) ==
    /\ saver # "none"
    /\ WellFormed(file)
    /\ Len(file.doc.storage_state.cookies) > 0
    /\ (inst = saver \/ fresh)

\* C8: after a successful save of a state S with a non-empty cookie list,
\* get_storage_state(H) on the saving manager or on a fresh one, the record
\* being no older than H hours, returns a state whose only key is cookies and
\* whose cookie list is S.cookies, whatever else S carried.
C8_SaveLoadRoundTrip ==
    (/\ last.op = "get_storage_state"
     /\ AfterSaveOf(last.inst, last.fresh)
     /\ WithinAge(file, now, last.max_age_hours))
        => (/\ last.ret = "state"
            /\ last.state.kind = "dict"
            /\ last.state.cookieKind = "list"
            /\ last.state.cookies = file.doc.storage_state.cookies
            /\ ~last.state.origins)

\* C8 witness: a fresh manager got back both cookies, in order, of a state that
\* another manager saved with an origins payload
C8_FreshManagerGotCookies ==
    /\ last.op = "get_storage_state"
    /\ last.fresh
    /\ saver \notin {"none", last.inst}
    /\ file.doc.storage_state = StorageTwo
    /\ last.ret = "state"
    /\ last.state.cookies = <<"c2", "c1">>

\* C9: right after a successful save of a state with at least one cookie,
\* is_session_valid(24) is true on the saving manager and on a fresh one.
C9_ValidRightAfterSave ==
    (/\ last.op = "is_session_valid"
     /\ last.max_age_hours = DefaultMaxAgeHours
     /\ AfterSaveOf(last.inst, last.fresh)
     /\ now = file.doc.saved_at.t)
        => last.ret = "True"

\* C9 witness: the saving manager, which held session_data before, reports the
\* session valid at the instant of a save made after the clock had advanced
C9_SaverValidAfterLaterSave ==
    /\ last.op = "is_session_valid"
    /\ last.max_age_hours = DefaultMaxAgeHours
    /\ last.inst = saver
    /\ ~last.fresh
    /\ WellFormed(file)
    /\ now = file.doc.saved_at.t
    /\ now = MaxTime
    /\ last.ret = "True"

\* the calls that read the session
ReadOps == {"load_session", "is_session_valid", "get_storage_state"}

\* the persisted record is older than H hours, or there is none
Gone(f, t, max_age_hours) ==
    \/ f.kind = "absent"
    \/ /\ f.kind = "text"
       /\ f.doc.kind = "dict"
       /\ f.doc.saved_at.k = "ts"
       /\ ~WithinAge(f, t, max_age_hours)

\* is_session_valid(H) on manager i, called now, returns false because of age:
\* the record it evaluates has a parsable saved_at more than H hours back
FalseBecauseOfAge(i, max_age_hours) ==
    LET r == IsSessionValid(session_data[i], file, now, max_age_hours)
    IN  /\ file.kind # "absent"
        /\ r.ret = "False"
        /\ r.session_data.kind = "dict"
        /\ r.session_data.saved_at.k = "ts"
        /\ Expired(r.session_data.saved_at.t, now, max_age_hours)

\* C10 as stated: a read leaves the file as it is and gives a manager no record
\* but the one it had or the one in the file; and once is_session_valid(H) has
\* returned false on a manager because of age, then after any step that is no
\* save (and no new manager) is_session_valid(H) on it still returns false.
C10_ExpiredStaysExpired ==
    [][/\ last'.op \in ReadOps
           => /\ file' = file
              /\ \A i \in Instances : session_data'[i] \in {session_data[i], file.doc}
       /\ \A i \in Instances, h \in MaxAgeChoices :
            (/\ last.op = "is_session_valid"
             /\ last.inst = i
             /\ last.max_age_hours = h
             /\ FalseBecauseOfAge(i, h)
             /\ last'.op \notin {"save_session", "foreign_write", "__init__"})
                => IsSessionValid(session_data'[i], file', now', h).ret = "False"]_vars

\* Reading never renews the persisted record (the part of C10 that holds): a
\* read leaves the file as it is, and once the persisted record is older than
\* H hours, then, as long as nothing saves, it stays older than H (or is
\* deleted) and every is_session_valid(H), on any manager, returns false.
PersistedExpiryIsStable ==
    [][/\ last'.op \in ReadOps
           => /\ file' = file
              /\ \A i \in Instances : session_data'[i] \in {session_data[i], file.doc}
       /\ \A h \in MaxAgeChoices :
            (Gone(file, now, h) /\ last'.op \notin {"save_session", "foreign_write"})
                => /\ Gone(file', now', h)
                   /\ (last'.op = "is_session_valid" /\ last'.max_age_hours = h)
                          => last'.ret = "False"]_vars

---------------------------------------------------------------------------
(* clean_storage_state *)

\* C11: clean_storage_state is idempotent: applied to what it returned, for
\* any argument (None, {}, a dict without a cookies key, a full state), it
\* returns that value again.
C11_CleanIsIdempotent ==
    [][(last.op = "clean_storage_state" /\ last'.op = "clean_storage_state"
            /\ ~last'.fresh)
           => last'.state = last.state]_vars

\* a full state was cleaned twice: the first call dropped its origins
C11_CleanedTwice ==
    /\ last.op = "clean_storage_state"
    /\ ~last.fresh
    /\ last.arg.origins
    /\ Len(last.arg.cookies) = 2
    /\ last.state # last.arg
    /\ last.state.cookies = last.arg.cookies

\* a dict with at most the keys cookies (a list) and origins
WellFormedState(s) == s.kind = "dict" /\ s.cookieKind \in {"missing", "list"}

\* what clean_storage_state is to return for s: {'cookies': s's cookie list}
OnlyCookiesOf(s, result) ==
    /\ result.kind = "dict"
    /\ result.cookieKind = "list"
    /\ result.cookies = s.cookies
    /\ ~result.origins

\* C12 as stated: for any well-formed state, the empty dict included, the
\* result is a record whose only key is cookies, holding the argument's cookie
\* list ([] when it has none).
C12_OnlyCookiesForAnyState ==
    (last.op = "clean_storage_state" /\ last.fresh /\ WellFormedState(last.arg))
        => OnlyCookiesOf(last.arg, last.state)

\* C12: for any well-formed state with at least one key the result is a record
\* whose only key is cookies, holding the argument's cookie list ([] when it has
\* no cookies key); the empty dict is returned as it is, without a cookies key.
C12_OnlyCookiesForNonEmptyState ==
    (last.op = "clean_storage_state" /\ last.fresh /\ WellFormedState(last.arg))
        => IF StorageTruthy(last.arg) THEN OnlyCookiesOf(last.arg, last.state)
           ELSE last.state = last.arg

\* a state with an origins payload and no cookies key was cleaned
C12_CleanedStateWithoutCookies ==
    /\ last.op = "clean_storage_state"
    /\ last.fresh
    /\ last.arg = StorageNoCookiesKey
    /\ last.state = Storage("dict", "list", <<>>, FALSE, TRUE)

---------------------------------------------------------------------------
(* create_playwright_session, ensure_logged_in, is_logged_in *)

\* the value the claim gives a field: the argument when non-empty, else the
\* environment value when non-empty, else nothing ("")
FieldValue(arg, env) == IF arg \notin {"None", ""} THEN arg
                        ELSE IF env # "" THEN env ELSE ""

\* C13: each of identity and secret is the explicit argument when non-empty,
\* else the environment value when non-empty.  When either is nothing the call
\* has ended with the ValueError naming SSO_USERNAME and SSO_PASSWORD before
\* the driver was started or a login step ran; otherwise the login runs with
\* exactly that pair.
C13_CredentialsResolvedPerField ==
    session.pc # "idle" =>
        LET name == FieldValue(session.arg_name, session.SSO_USERNAME)
            password == FieldValue(session.arg_password, session.SSO_PASSWORD)
        IN  IF name = "" \/ password = ""
            THEN /\ session.pc = "done"
                 /\ session.outcome = "ValueError"
                 /\ session.named = {"SSO_USERNAME", "SSO_PASSWORD"}
                 /\ session.playwright = "none"
                 /\ login.pc = "idle"
            ELSE /\ session.outcome # "ValueError"
                 /\ session.x_name = name
                 /\ session.x_password = password

\* the account field was filled with the explicit name although the
\* environment has one too, and the password comes from the environment
C13_ExplicitNameEnvPassword ==
    /\ session.arg_name = "name_arg"
    /\ session.SSO_USERNAME = "name_env"
    /\ session.arg_password = ""
    /\ session.x_name = "name_arg"
    /\ session.x_password = "password_env"
    /\ login.pc = "fill_password"

\* C14 as stated: the probe is_logged_in ends with a verdict, never with an
\* exception: a marker that is not found and an error of the probe itself, the
\* page load included, both give "not logged in".
C14_ProbeNeverRaises ==
    (last.op \in {"is_logged_in.goto", "is_logged_in.wait"}
         /\ login.pc # "is_logged_in.wait")
        => /\ login.outcome # "raised"
           /\ login.logged_in \in {"True", "False"}

\* C15 as stated: create_playwright_session ends by returning, by the
\* ValueError for missing credentials, or in the outcome LoginFailed; no
\* playwright exception escapes it.
C15_OnlyConfigurationErrorRaised ==
    session.pc = "done" => session.outcome \in {"returned", "ValueError", "LoginFailed"}

\* C16 as stated: when create_playwright_session exits by an exception raised
\* after the browser was launched, the browser is closed and the driver stopped.
C16_BrowserReleasedOnException ==
    (session.pc = "done" /\ session.outcome = "Error" /\ session.browser # "none")
        => /\ session.browser = "closed"
           /\ session.playwright = "stopped"

\* the awaits of ensure_logged_in in program order
LoginRank(pc) ==
    CASE pc = "idle" -> 0
      [] pc = "is_logged_in.goto" -> 1
      [] pc = "is_logged_in.wait" -> 2
      [] pc = "goto" -> 3
      [] pc = "fill_account" -> 4
      [] pc = "fill_password" -> 5
      [] pc = "click" -> 6
      [] pc = "wait" -> 7
      [] pc = "storage_state" -> 8
      [] pc = "done" -> 9

PerformLoginSteps ==
    {"goto", "fill_account", "fill_password", "click", "wait", "storage_state"}

\* C17: in one invocation of ensure_logged_in perform_login is called at most
\* once, and exactly when is_logged_in returned false; a step of perform_login
\* runs only inside that one call; every step moves forward in the flow, so
\* nothing is retried; and once the invocation has ended (returned or raised)
\* nothing of it runs again.
C17_LoginAtMostOnce ==
    [][/\ login'.calls <= 1
       /\ (login'.calls = 1) <=> (login'.logged_in = "False")
       /\ login'.pc \in PerformLoginSteps => login'.calls = 1
       /\ login'.logged_in = "True"
              => login'.pc = "done" /\ login'.outcome = "returned"
       /\ login' # login
              => LoginRank(login'.pc) > LoginRank(login.pc) \/ login' = LoginIdle
       /\ login.pc = "done" => login' \in {login, LoginIdle}]_vars

\* the one login attempt failed and the invocation is over
C17_FailedAttemptEnded ==
    /\ login.pc = "done"
    /\ login.calls = 1
    /\ login.outcome = "raised"
    /\ last.op = "click"

---------------------------------------------------------------------------
(* LoginManager.login and the selector-fallback loops *)

\* why a login did not succeed, when the automation is at fault
AutomationCauses == {"selector", "timeout", "browser"}

\* C18 as stated: a configuration error and an automation error never reach
\* the caller of LoginManager.login or login_aliyun as the same outcome:
\* missing credentials give the ValueError, and a selector that is not found, a
\* timeout or a browser failure gives something else.
C18_ConfigurationErrorDistinct ==
    /\ manager.cause = "config" => manager.outcome = "ValueError"
    /\ manager.cause \in AutomationCauses => manager.outcome # "ValueError"

\* C19: in every selector-fallback loop the candidates are invoked in list
\* order, one per iteration; a candidate that succeeded is the last one invoked,
\* the loop is left with its element, and once the loop is left no further
\* candidate is invoked.
C19_FirstSuccessWins ==
    [][/\ \A k \in 1..Len(lookup'.tried) :
            /\ lookup'.tried[k].selector = Selectors(lookup'.loop)[k]
            /\ Succeeded(lookup'.tried[k].outcome)
                   => /\ k = Len(lookup'.tried)
                      /\ lookup'.done
                      /\ lookup'.element = lookup'.tried[k].selector
       /\ \/ lookup'.tried \in {lookup.tried, <<>>}
          \/ /\ ~lookup.done
             /\ Len(lookup'.tried) = Len(lookup.tried) + 1
             /\ SubSeq(lookup'.tried, 1, Len(lookup.tried)) = lookup.tried]_vars

\* the first of three candidates failed, the second supplied the element, and
\* the third was not invoked
C19_SecondCandidateWon ==
    /\ lookup.loop = "pid_selector"
    /\ lookup.done
    /\ Len(lookup.tried) = 2
    /\ lookup.tried[1].outcome = "raise"
    /\ lookup.tried[2].outcome = "found"
    /\ lookup.element = pid_selector[2]

---------------------------------------------------------------------------
(* query_sms_signature *)

\* C20 as stated: whenever an extraction candidate fails, for whatever reason,
\* the next candidate is tried: a call that ends without a work-order id has
\* tried the table, the primary selector and the fallback cell selector, in
\* particular when the primary element's text held no digit.
C20_EveryCandidateTried ==
    (query.pc = "done" /\ query.methods # <<>> /\ query.work_order_id = <<>>)
        => query.methods = <<"table", "primary", "fallback">>

\* C21 as stated: when every extraction candidate is exhausted without an id
\* (no eligible table row, primary selector absent, no fallback cell with a
\* digit), the call returns the not-found failure result (success false,
\* work_order_id None, error set) and does not raise.
C21_ExhaustedReturnsNotFound ==
    (/\ query.pc = "done"
     /\ query.methods = <<"table", "primary", "fallback">>
     /\ query.work_order_id = <<>>)
        => (/\ query.outcome = "not found"
            /\ query.result.success = FALSE
            /\ query.result.work_order_id = <<>>
            /\ query.result.error = "not found")

\* the table had rows, none eligible, the primary selector timed out and no
\* cell held a digit
C21_ExhaustedWithRows ==
    /\ query.pc = "done"
    /\ query.methods = <<"table", "primary", "fallback">>
    /\ Len(query.table_rows) = MaxRows
    /\ query.text = <<>>
    /\ query.outcome = "not found"

\* strptime accepts the modification time of the entry
Parsable(entry) == entry.modify_time.k = "ts"

\* C22 as stated: when the table yields several eligible rows, the id returned
\* is that of the row with the most recent modification time, whatever the
\* order of the rows; a row with an unparsable time is never selected over a
\* row whose time parses.
C22_LatestRowSelected ==
    query.work_order_data # <<>>
        => LET selected == query.work_order_data[1]
           IN  /\ query.work_order_id = selected.work_order_id
               /\ \A j \in DOMAIN query.work_order_data :
                      Parsable(query.work_order_data[j])
                          => (/\ Parsable(selected)
                              /\ selected.modify_time.t
                                     >= query.work_order_data[j].modify_time.t)

\* C23 as stated: a row of the signature whose id parses but whose
\* modification time is unparsable, empty or blank included, is never
\* dropped from the candidate set.
C23_UnparsableRowStaysEligible ==
    \A i \in DOMAIN query.table_rows :
        (/\ query.table_rows[i].cells = "ok"
         /\ query.table_rows[i].sign_name_text = sign_name
         /\ extract_work_order_id(query.table_rows[i].work_order_text) # <<>>)
            => \E j \in DOMAIN query.work_order_data :
                   query.work_order_data[j].row_index = i - 1

\* C24 as stated: extract_work_order_id returns a run of ASCII digits, and
\* None when the text holds no ASCII digit: no other character appears in the
\* result or makes it non-None.
C24_AsciiDigitsOnly ==
    (query.methods # <<>> /\ query.methods[Len(query.methods)] = "primary")
        => (/\ \A i \in DOMAIN query.work_order_id :
                   query.work_order_id[i] \in AsciiDigits
            /\ query.work_order_id # <<>>
                   <=> \E i \in DOMAIN query.text : query.text[i] \in AsciiDigits)

\* C27 as stated: every result has success = true iff work_order_id is a
\* non-empty digit string iff error is None; all_work_orders and total_count
\* are present only on success, and then total_count is the length of
\* all_work_orders and work_order_id the id of its first element; no exception
\* escapes.
C27_ResultInvariants ==
    query.pc = "done"
        => LET r == query.result
           IN  /\ query.outcome \in {"success", "not found", "error"}
               /\ r.success <=> (/\ r.work_order_id # <<>>
                                 /\ \A i \in DOMAIN r.work_order_id :
                                        r.work_order_id[i] \in Digits)
               /\ r.success <=> r.error = "None"
               /\ r.has_all_work_orders
                      => (/\ r.success
                          /\ r.total_count = Len(r.all_work_orders)
                          /\ r.all_work_orders # <<>>
                          /\ r.work_order_id = r.all_work_orders[1].work_order_id)

\* a success with the rows of the table in the result
C27_SuccessWithRows ==
    /\ query.pc = "done"
    /\ query.result.success
    /\ query.result.has_all_work_orders
    /\ query.result.total_count = MaxRows

\* C29 as stated: whenever query_sms_signature returns success, the id was
\* extracted from a table row whose sign-name cell equals the requested
\* sign_name; an id of an element with no sign-name check is never returned.
C29_IdFromMatchingRow ==
    (query.pc = "done" /\ query.outcome = "success")
        => \E i \in DOMAIN query.table_rows :
               /\ query.table_rows[i].cells = "ok"
               /\ query.table_rows[i].sign_name_text = sign_name
               /\ extract_work_order_id(query.table_rows[i].work_order_text)
                      = query.work_order_id

---------------------------------------------------------------------------
(* SessionManager: what a positive verdict says about the file *)

\* C25 as stated: whenever is_session_valid or get_storage_state reports a
\* usable session, the session file at that moment holds a parsable record
\* with a non-empty cookie list and a saved_at within the max age.
C25_VerdictReflectsFile ==
    (\/ last.op = "is_session_valid" /\ last.ret = "True"
     \/ last.op = "get_storage_state" /\ last.ret = "state")
        => (/\ file.kind = "text"
            /\ file.doc.kind = "dict"
            /\ file.doc.saved_at.k = "ts"
            /\ file.doc.storage_state.kind = "dict"
            /\ CookiesTruthy(file.doc.storage_state)
            /\ WithinAge(file, now, last.max_age_hours))

\* a record whose only key is cookies, with a non-empty list of cookies
CookiesOnly(s) ==
    /\ s.kind = "dict"
    /\ s.cookieKind = "list"
    /\ Len(s.cookies) > 0
    /\ ~s.origins

\* C26 as stated: get_storage_state(H) returns None or a record whose only key
\* is cookies with a non-empty cookie list, and non-None only when
\* is_session_valid(H) holds; so create_playwright_session hands the context
\* no stored state or a cookies-only state of a session at most 24 hours old.
C26_StateIsNoneOrCookiesOnly ==
    /\ last.op = "get_storage_state"
           => (/\ last.ret \in {"None", "state"}
               /\ last.ret = "state"
                      => (/\ CookiesOnly(last.state)
                          /\ \/ last.inst \notin Instances
                             \/ IsSessionValid(session_data[last.inst], file, now,
                                               last.max_age_hours).ret = "True"))
    /\ session.storage_state.kind \notin {"none", "missing"}
           => (/\ CookiesOnly(session.storage_state)
               /\ (last.op = "get_storage_state" /\ last.inst = "session")
                      => (/\ WellFormed(file)
                          /\ WithinAge(file, now, DefaultMaxAgeHours)))

\* What holds of get_storage_state whatever the file holds: the record
\* returned has the one key cookies with a truthy value, and the same manager's
\* is_session_valid agrees.
StateHasTruthyCookies ==
    (last.op = "get_storage_state" /\ last.ret = "state")
        => (/\ last.state.kind = "dict"
            /\ CookiesTruthy(last.state)
            /\ ~last.state.origins
            /\ \/ last.inst \notin Instances
               \/ IsSessionValid(session_data[last.inst], file, now,
                                 last.max_age_hours).ret = "True")

---------------------------------------------------------------------------
(* login_aliyun *)

\* C30 as stated: login_aliyun writes the session store only when login()
\* returned true: on a failed login, a re-raised ValueError and any other
\* exception the persisted record is left unchanged; and what it returns is
\* the login outcome even when the session save fails.
C30_SavedOnlyAfterLogin ==
    [][manager.via = "login_aliyun"
           => (/\ file' # file => (manager.pc = "returned" /\ manager.outcome = "True")
               /\ (manager.pc = "returned" /\ manager'.pc = "done")
                      => manager'.returned = manager.outcome)]_vars

\* login succeeded, the save failed, login_aliyun returned True
C30_ReturnedTrueSaveFailed ==
    /\ manager.pc = "done"
    /\ manager.via = "login_aliyun"
    /\ manager.returned = "True"
    /\ last.op = "save_session"
    /\ last.ret = "False"

---------------------------------------------------------------------------
(* query_sms_success_rate_multi *)

\* the calls made are those of the first n ranges, in list order, the first
\* with the PID input and the later ones without
CallsInOrder(n) ==
    /\ Len(multi.calls) = n
    /\ \A k \in 1..n :
           /\ multi.calls[k].time_range = multi.time_ranges[k]
           /\ multi.calls[k].skip_pid_input = (k > 1)

\* the calls that failed
Failing == {k \in DOMAIN multi.calls : ~multi.calls[k].success}

\* error is the message of the first failing call, None when there is none
ErrorOfFirstFailure ==
    IF Failing = {} THEN multi.error.kind = "None"
    ELSE /\ multi.error.kind # "None"
         /\ \A k \in Failing : multi.error.call <= k
         /\ multi.error.call \in Failing

\* the ranges requested
Requested == {multi.time_ranges[k] : k \in DOMAIN multi.time_ranges}

\* C28 as stated: the full query runs for the first range only and the
\* switch-only query for each later one, in list order; if the first query
\* fails the call returns at once; otherwise results holds one entry per
\* requested range, success is true iff every entry succeeded, and error is the
\* message of the first failing range.
C28_SuccessIffEveryEntrySucceeded ==
    (multi.pc = "done" /\ multi.outcome = "return")
        => IF ~multi.calls[1].success
           THEN CallsInOrder(1)
           ELSE /\ CallsInOrder(Len(multi.time_ranges))
                /\ \A tr \in TimeRanges : multi.results[tr] # "absent" <=> tr \in Requested
                /\ multi.success <=> \A tr \in Requested : multi.results[tr] = "True"
                /\ ErrorOfFirstFailure

\* C28 as the code has it, for a list that is not empty: results holds, for
\* each requested range, the result of the last query of that range, and
\* success is true iff every query succeeded.
C28_SuccessIffEveryQuerySucceeded ==
    (multi.pc = "done" /\ multi.time_ranges # <<>>)
        => /\ multi.outcome = "return"
           /\ IF ~multi.calls[1].success
              THEN /\ CallsInOrder(1)
                   /\ ~multi.success
                   /\ multi.error = [kind |-> "first", call |-> 1]
              ELSE /\ CallsInOrder(Len(multi.time_ranges))
                   /\ \A tr \in TimeRanges :
                          IF tr \notin Requested THEN multi.results[tr] = "absent"
                          ELSE \E k \in DOMAIN multi.calls :
                                   /\ multi.calls[k].time_range = tr
                                   /\ \A j \in DOMAIN multi.calls :
                                          multi.calls[j].time_range = tr => j <= k
                                   /\ multi.results[tr]
                                          = IF multi.calls[k].success THEN "True"
                                            ELSE "False"
                   /\ multi.success <=> Failing = {}
                   /\ ErrorOfFirstFailure

\* three ranges were queried, the second and the third failed, and error is
\* the message of the second
C28_TwoLaterRangesFailed ==
    /\ multi.pc = "done"
    /\ Len(multi.calls) = MaxRanges
    /\ Failing = {2, 3}
    /\ multi.error = [kind |-> "later", call |-> 2]
    /\ ~multi.success

====
